---- MODULE Spec2Model ----
(***************************************************************************)
(* Context assembly and incremental summarisation of one session of the    *)
(* story-conversation service (context.py, llm_utils.py, main.py).         *)
(*                                                                         *)
(* A text is a sequence of atoms [k, a, b, n]: k says where the characters *)
(* come from (a stored turn, a reply of the generation model, a literal of *)
(* the program), a..b the log positions a summary reply was asked about,   *)
(* n the number of characters.  The empty string is the empty sequence.    *)
(* Concatenation is \o, s[:n] is Prefix(s, n), len(s) is TextLen(s).       *)
(***************************************************************************)
EXTENDS Integers, Sequences, FiniteSets, TLC

(* ------------------------------ config.py ------------------------------ *)
RECENT_MESSAGE_COUNT == 10
SUMMARY_MAX_TOKENS == 2000
MESSAGE_COMPRESS_THRESHOLD == 2500
MESSAGE_COMPRESSED_SIZE == 800
MAX_INPUT_TOKENS == 50000

MIN_REQUEST_INTERVAL == 2

(* ----------------------------- openrouter.py --------------------------- *)
\* timedelta(hours=1), in units of half an hour
HOUR == 2
\* (current_count - old_count) > 10
NEW_MESSAGE_LIMIT == 10
\* get_story_messages(session_id, limit=50)
SUMMARY_MESSAGE_LIMIT == 50
\* len("Story context available for continuation.")
STORY_FALLBACK_LEN == 41

(* ------------------------ literals of the code ------------------------- *)
\* recent_messages[-10:]
EMERGENCY_KEEP == 10
\* content[:target_tokens * 4]
CHARS_PER_TOKEN == 4
\* len("[Previous scene, compressed]: ")
MARKER_LEN == 30
\* len("\n\nRecent developments: ")
SEPARATOR_LEN == 23
\* len("Story context available.")
FALLBACK_LEN == 24
\* len(STORY_SYSTEM_PROMPT + "\n\nStory so far: ")
SYSTEM_PREFIX_LEN == 1464

(* ------------------------------- bounds -------------------------------- *)
\* turns a session holds beyond the recent window (old_message_count <= MaxOld)
MaxOld == 2
\* turns of the session whose content is above the compression trigger
MaxLong == 1
\* characters of an ordinary reply of the generation model
ShortLen == 400

\* the greatest setting of RECENT_MESSAGE_COUNT, and the most turns beyond it, that
\* the arithmetic of the guard is checked for
MaxSetting == 12
MaxBeyond == 3

\* seconds the clock runs beyond its start, and turns a session of chat requests holds
MaxTime == 3
MaxChatTurns == 4

MaxTurns == RECENT_MESSAGE_COUNT + MaxOld

\* the longest content still at the compression trigger, and the first above it
TriggerLen == CHARS_PER_TOKEN * MESSAGE_COMPRESS_THRESHOLD + (CHARS_PER_TOKEN - 1)
LongLen == TriggerLen + 1
\* a reply that alone is above the input ceiling
HugeLen == CHARS_PER_TOKEN * (MAX_INPUT_TOKENS + 1)

Min(x, y) == IF x <= y THEN x ELSE y
Max(x, y) == IF x >= y THEN x ELSE y

\* openrouter.py: stored messages, half hours of clock time and get_cached_summary calls
MaxStored == 3
MaxClock == 3
MaxReads == 3

(* -------------------------------- texts -------------------------------- *)
Atom(k, a, b, n) == [k |-> k, a |-> a, b |-> b, n |-> n]
Text(k, a, b, n) == IF n = 0 THEN << >> ELSE << Atom(k, a, b, n) >>

\* Python's None where a text is expected
None == << Atom("None", 0, 0, 0) >>

Marker == Text("marker", 0, 0, MARKER_LEN)
Separator == Text("separator", 0, 0, SEPARATOR_LEN)
Fallback == Text("fallback", 0, 0, FALLBACK_LEN)
SystemPrefix == Text("system_prompt", 0, 0, SYSTEM_PREFIX_LEN)

RECURSIVE TextLen(_)
TextLen(t) == IF t = << >> THEN 0 ELSE Head(t).n + TextLen(Tail(t))

\* s[:n]
RECURSIVE Prefix(_, _)
Prefix(t, n) ==
    IF t = << >> \/ n <= 0 THEN << >>
    ELSE IF Head(t).n <= n THEN << Head(t) >> \o Prefix(Tail(t), n - Head(t).n)
    ELSE << [Head(t) EXCEPT !.n = n] >>

IsPrefixOf(p, t) == p = Prefix(t, TextLen(p))

\* database.estimate_tokens
estimate_tokens(t) == TextLen(t) \div CHARS_PER_TOKEN

\* Python truthiness of an optional string: None and "" are false
Falsy(t) == t = None \/ t = << >>

(* ----------------------- the generation service ------------------------ *)
\* what one call of call_llm can do: raise, or return a string
Failure == [ok |-> FALSE, n |-> 0]
Reply(n) == [ok |-> TRUE, n |-> n]
\* of a summarisation call: it fails, or replies "", a short text or a huge one
Outcomes == {Failure, Reply(0), Reply(ShortLen), Reply(HugeLen)}
\* of a compression call
CompressOutcomes == {Failure, Reply(ShortLen), Reply(HugeLen)}

\* a generate_summary that returns the empty string, not the fallback, on failure
\* (C4 must tell it from the code's)
generate_summary_empty(a, b, oc) ==
    IF oc.ok THEN Text("summary", a, b, oc.n) ELSE << >>

\* llm_utils.generate_summary on the turns at positions a..b
generate_summary(a, b, oc) ==
    IF oc.ok THEN Text("summary", a, b, oc.n) ELSE Fallback

\* the positions of the turns a text was made from: those of its first piece
FirstOf(t) == IF t = << >> THEN 0 ELSE Head(t).a
LastOf(t) == IF t = << >> THEN 0 ELSE Head(t).b

\* llm_utils.compress_message: the reply is made from the content it was given
compress_message(content, target_tokens, oc) ==
    IF oc.ok THEN Text("compressed", FirstOf(content), LastOf(content), oc.n)
    ELSE Prefix(content, target_tokens * CHARS_PER_TOKEN)

(* ------------------------------ context.py ----------------------------- *)
NeedsCompression(message) ==
    estimate_tokens(message.content) > MESSAGE_COMPRESS_THRESHOLD

\* a compress_if_needed that gives the turn up when its call fails
\* (C12 must tell it from the code's)
compress_or_drop(message, oc) ==
    IF NeedsCompression(message)
    THEN (IF oc.ok
          THEN [role |-> message.role,
                content |-> Marker \o compress_message(message.content,
                                                       MESSAGE_COMPRESSED_SIZE, oc)]
          ELSE [role |-> "error", content |-> << >>])
    ELSE message

\* context.compress_if_needed; oc is the outcome of the call it makes, if any
compress_if_needed(message, oc) ==
    IF NeedsCompression(message)
    THEN [role |-> message.role,
          content |-> Marker \o compress_message(message.content, MESSAGE_COMPRESSED_SIZE, oc)]
    ELSE message

\* the system segment of the long regime: STORY_SYSTEM_PROMPT, "Story so far: ", summary
SystemSegment(summary_text) ==
    [role |-> "system", content |-> SystemPrefix \o summary_text]

RECURSIVE SumTokens(_)
\* sum(estimate_tokens(msg['content']) for msg in context)
SumTokens(ctx) ==
    IF ctx = << >> THEN 0
    ELSE estimate_tokens(Head(ctx).content) + SumTokens(Tail(ctx))

\* xs[-n:]
LastN(xs, n) == SubSeq(xs, Max(1, Len(xs) - n + 1), Len(xs))

\* an assembly with the system segment last (C11 must tell it from the code's)
AssembleSystemLast(summary_text, recent) == recent \o << SystemSegment(summary_text) >>

\* an assembly without the system segment (C7 must tell it from the code's)
AssembleNoSystem(summary_text, recent) == recent

\* context = [system segment]; context.extend(recent_messages)
AssembleContext(summary_text, recent) ==
    << SystemSegment(summary_text) >> \o recent

\* the context of the emergency branch: the system segment and recent_messages[-10:]
EmergencyContext(summary_text, recent) ==
    << SystemSegment(summary_text) >> \o LastN(recent, EMERGENCY_KEEP)

\* a short regime that ends one turn early (C6 must tell it from the code's)
IsShortStrict(total) == total < RECENT_MESSAGE_COUNT

\* the guard and the subtraction of build_context for a setting of
\* RECENT_MESSAGE_COUNT: the code reads the one constant in both places
IsShortWith(total, recent_setting) == total <= recent_setting

\* a subtraction that is off by one (C15 must tell it from the code's)
OldCountOff(total, recent_setting) == total - recent_setting - 1

OldCountWith(total, recent_setting) == total - recent_setting

\* if total_messages <= RECENT_MESSAGE_COUNT: the short regime
IsShort(total) == IsShortWith(total, RECENT_MESSAGE_COUNT)

\* a coverage that overshoots the stored turns (C5 must tell it from the code's)
OldCountPlus(total) == total + RECENT_MESSAGE_COUNT

\* old_message_count = total_messages - RECENT_MESSAGE_COUNT
OldCount(total) == OldCountWith(total, RECENT_MESSAGE_COUNT)

\* a delta that starts at the first turn (C2 must tell it from the code's)
DeltaFromOne(prev_coverage) == 1

\* the first position of the delta: prev_coverage + 1
DeltaFrom(prev_coverage) == prev_coverage + 1

\* combined = f"{prev_summary}\n\nRecent developments: {new_summary_part}"
Combine(prev_summary, part) == prev_summary \o Separator \o part

\* a budget test that lets every concatenation through (C17 must tell it from the code's)
NeverOverBudget(combined) == FALSE

\* if estimate_tokens(combined) > SUMMARY_MAX_TOKENS
OverBudget(combined) == estimate_tokens(combined) > SUMMARY_MAX_TOKENS

(* ------------------ database.py: message log and cache ----------------- *)
count_messages(l) == Len(l)
get_all_messages(l) == l
get_last_n_messages(l, n) == LastN(l, n)
\* positions a..b, 1-indexed, inclusive
get_messages_range(l, a, b) == SubSeq(l, a, Min(b, Len(l)))

Coverages(c) == {r.coverage : r \in c}
MaxCoverage(c) == IF c = {} THEN 0 ELSE CHOOSE x \in Coverages(c) : \A y \in Coverages(c) : y <= x

\* exact match, or None
get_cached_summary(c, coverage) ==
    IF coverage \in Coverages(c)
    THEN (CHOOSE r \in c : r.coverage = coverage).text
    ELSE None

\* Python's None where a (coverage, text) pair is expected
NoLatest == [coverage |-> 0, text |-> None]

\* the record of greatest coverage, or None
get_latest_cached_summary(c) ==
    IF c = {} THEN NoLatest ELSE CHOOSE r \in c : r.coverage = MaxCoverage(c)

cache_summary(c, coverage, text) ==
    {r \in c : r.coverage # coverage} \cup {[coverage |-> coverage, text |-> text]}

(* -------------------------------- state -------------------------------- *)
Workers == {1, 2}
\* a stored turn is as long as the compression trigger allows, or one character longer
TurnLens == {TriggerLen, LongLen}

VARIABLES
    log,                \* the session's stored turns, in order
    cache,              \* the session's summary records
    pc,                 \* where each request is
    op,                 \* what each request is: "build" or "summary"
    total_messages,     \* locals of build_context / get_summary_endpoint
    old_message_count,
    summary,
    latest,             \* locals of generate_summary_incremental
    new_summary_part,
    recent_messages,
    context,
    truncated,          \* the request took the emergency branch
    calls,              \* the calls the request has made to the database and the service
    floor,              \* the greatest coverage stored when the request counted
    first_context,      \* what the request's first build_context call returned, if it calls twice
    now,                \* time.time(), in seconds
    last_request_time,  \* main.last_request_time
    last_generation,    \* when chat last called call_llm
    chat,               \* where each chat request is, outside build_context
    prompt,             \* body.prompt of each chat request
    clock,              \* openrouter.py: datetime.now(), in units of half an hour
    message_rows,       \* openrouter.py: the rows of table messages of the session, counted
    story_context,      \* openrouter.py: the row of table story_context of the session
    summary_calls,      \* openrouter.py: calls of the model made by generate_comprehensive_summary
    reads,              \* openrouter.py: get_cached_summary calls made
    returned,           \* openrouter.py: what the last get_cached_summary call returned
    last_stored         \* openrouter.py: the last summary generated and stored, when, at what count

\* the state of main.chat
chatvars == << now, last_request_time, last_generation, chat, prompt >>

\* the state of openrouter.py
legacyvars == << clock, message_rows, story_context, summary_calls, reads, returned, last_stored >>

\* what build_context does not touch
hostvars == << chatvars, legacyvars >>

vars == << log, cache, pc, op, total_messages, old_message_count, summary, latest,
           new_summary_part, recent_messages, context, truncated, calls, floor,
           first_context, hostvars >>

\* the server starts when time.time() is at least MIN_REQUEST_INTERVAL
StartTime == MIN_REQUEST_INTERVAL
\* no call of the generation model yet
NoTime == 0 - 1

\* openrouter.py: no row of story_context for the session
NoRow == [present |-> FALSE, comprehensive_summary |-> None, message_count |-> 0,
          last_updated |-> 0]
\* openrouter.py: no summary generated and stored yet
NoStored == [text |-> None, at |-> 0, count |-> 0]

\* no list of segments: the role "None" is no role of a segment
NoOut == << [role |-> "None", content |-> << >>] >>

\* the turn stored at position pos: its content is n characters of that turn
Turn(role, pos, n) == [role |-> role, content |-> Text("turn", pos, pos, n)]
NextRole(l) == IF Len(l) % 2 = 0 THEN "user" ELSE "assistant"
LongTurns(l) == {i \in 1..Len(l) : TextLen(l[i].content) > TriggerLen}

\* one call: its kind, the positions or the coverage it names, and how it went
Call(kind, a, b, ok) == [kind |-> kind, a |-> a, b |-> b, ok |-> ok]

IdleLocals ==
    /\ pc = [w \in Workers |-> "idle"]
    /\ op = [w \in Workers |-> "none"]
    /\ total_messages = [w \in Workers |-> 0]
    /\ old_message_count = [w \in Workers |-> 0]
    /\ summary = [w \in Workers |-> None]
    /\ latest = [w \in Workers |-> NoLatest]
    /\ new_summary_part = [w \in Workers |-> None]
    /\ recent_messages = [w \in Workers |-> << >>]
    /\ context = [w \in Workers |-> << >>]
    /\ truncated = [w \in Workers |-> FALSE]
    /\ calls = [w \in Workers |-> << >>]
    /\ floor = [w \in Workers |-> 0]
    /\ first_context = [w \in Workers |-> NoOut]
    /\ now = StartTime
    /\ last_request_time = 0
    /\ last_generation = NoTime
    /\ chat = [w \in Workers |-> "none"]
    /\ prompt = [w \in Workers |-> None]
    /\ clock = 0
    /\ message_rows = 0
    /\ story_context = NoRow
    /\ summary_calls = 0
    /\ reads = 0
    /\ returned = None
    /\ last_stored = NoStored

Init ==
    /\ log = << >>
    /\ cache = {}
    /\ IdleLocals

(* ------------------------------- actions ------------------------------- *)
\* database.store_message, as main.chat uses it: a user turn, then the reply
store_message(n) ==
    /\ Len(log) < MaxTurns
    /\ n > TriggerLen => Cardinality(LongTurns(log)) < MaxLong
    /\ log' = Append(log, Turn(NextRole(log), Len(log) + 1, n))
    /\ UNCHANGED << hostvars, cache, pc, op, total_messages, old_message_count, summary, latest,
                    new_summary_part, recent_messages, context, truncated, calls, floor,
                    first_context >>

LongIdx(messages) == {i \in 1..Len(messages) : NeedsCompression(messages[i])}

\* [compress_if_needed(msg) for msg in messages]
CompressAll(messages, ocs) ==
    [i \in 1..Len(messages) |->
        IF i \in LongIdx(messages) THEN compress_if_needed(messages[i], ocs[i])
        ELSE compress_if_needed(messages[i], Failure)]

\* the compression calls it makes; from is the log position of messages[1]
CompressCalls(messages, from, ocs) ==
    LET RECURSIVE Made(_)
        Made(i) ==
            IF i > Len(messages) THEN << >>
            ELSE (IF i \in LongIdx(messages)
                  THEN << Call("compress", from + i - 1, from + i - 1, ocs[i].ok) >>
                  ELSE << >>) \o Made(i + 1)
    IN Made(1)

\* build_context: total_messages = count_messages(session_id), and the branch on it
EnterBuild(w) ==
    /\ total_messages' = [total_messages EXCEPT ![w] = count_messages(log)]
    /\ floor' = [floor EXCEPT ![w] = MaxCoverage(cache)]
    /\ calls' = [calls EXCEPT ![w] = << Call("count", 0, 0, TRUE) >>]
    /\ IF IsShort(count_messages(log))
       THEN /\ pc' = [pc EXCEPT ![w] = "short"]
            /\ old_message_count' = [old_message_count EXCEPT ![w] = 0]
       ELSE /\ pc' = [pc EXCEPT ![w] = "lookup"]
            /\ old_message_count' = [old_message_count EXCEPT
                                        ![w] = OldCount(count_messages(log))]

\* a call of build_context
BuildCount(w) ==
    /\ pc[w] = "idle"
    /\ op' = [op EXCEPT ![w] = "build"]
    /\ EnterBuild(w)
    /\ UNCHANGED << hostvars, log, cache, summary, latest, new_summary_part, recent_messages,
                    context, truncated, first_context >>

\* the caller calls build_context a second time, right after the first call returned
BuildAgain(w) ==
    /\ pc[w] = "done"
    /\ op[w] = "build"
    /\ first_context[w] = NoOut
    /\ first_context' = [first_context EXCEPT ![w] = context[w]]
    /\ EnterBuild(w)
    /\ summary' = [summary EXCEPT ![w] = None]
    /\ recent_messages' = [recent_messages EXCEPT ![w] = << >>]
    /\ context' = [context EXCEPT ![w] = << >>]
    /\ truncated' = [truncated EXCEPT ![w] = FALSE]
    /\ UNCHANGED << hostvars, log, cache, op, latest, new_summary_part >>

\* build_context, phase 1: every turn, each through compress_if_needed
BuildShort(w, CO) ==
    /\ pc[w] = "short"
    /\ LET messages == get_all_messages(log) IN
       \E ocs \in [LongIdx(messages) -> CO] :
          /\ context' = [context EXCEPT ![w] = CompressAll(messages, ocs)]
          /\ calls' = [calls EXCEPT ![w] =
                         Append(@, Call("get_all", 1, Len(messages), TRUE))
                             \o CompressCalls(messages, 1, ocs)]
    /\ pc' = [pc EXCEPT ![w] = "done"]
    /\ UNCHANGED << hostvars, log, cache, op, total_messages, old_message_count, summary, latest,
                    new_summary_part, recent_messages, truncated, floor, first_context >>

\* summary = get_cached_summary(session_id, old_message_count); if not summary: ...
Lookup(w) ==
    /\ pc[w] = "lookup"
    /\ LET found == get_cached_summary(cache, old_message_count[w]) IN
          /\ summary' = [summary EXCEPT ![w] = found]
          /\ calls' = [calls EXCEPT ![w] =
                         Append(@, Call("get_cached_summary", old_message_count[w],
                                        old_message_count[w], found # None))]
          /\ pc' = [pc EXCEPT ![w] =
                      IF Falsy(found) THEN "sum_latest"
                      ELSE IF op[w] = "build" THEN "window" ELSE "done"]
    /\ UNCHANGED << hostvars, log, cache, op, total_messages, old_message_count, latest,
                    new_summary_part, recent_messages, context, truncated, floor,
                    first_context >>

\* generate_summary_incremental: latest = get_latest_cached_summary(session_id)
SumLatest(w) ==
    /\ pc[w] = "sum_latest"
    /\ LET got == get_latest_cached_summary(cache) IN
          /\ latest' = [latest EXCEPT ![w] = got]
          /\ calls' = [calls EXCEPT ![w] =
                         Append(@, Call("get_latest_cached_summary", got.coverage,
                                        got.coverage, got # NoLatest))]
          /\ IF got = NoLatest
             THEN /\ pc' = [pc EXCEPT ![w] = "sum_scratch"]
                  /\ UNCHANGED summary
             ELSE IF got.coverage >= old_message_count[w]
             THEN /\ pc' = [pc EXCEPT ![w] = "store"]
                  /\ summary' = [summary EXCEPT ![w] = got.text]
             ELSE /\ pc' = [pc EXCEPT ![w] = "sum_delta"]
                  /\ UNCHANGED summary
    /\ UNCHANGED << hostvars, log, cache, op, total_messages, old_message_count, new_summary_part,
                    recent_messages, context, truncated, floor, first_context >>

\* generate_summary_incremental: the delta, the concatenation and the budget test
SumDelta(w, O) ==
    /\ pc[w] = "sum_delta"
    /\ LET prev_coverage == latest[w].coverage
           prev_summary == latest[w].text
           target_coverage == old_message_count[w]
           from == DeltaFrom(prev_coverage)
           new_messages == get_messages_range(log, from, target_coverage)
           to == from + Len(new_messages) - 1
           read == Call("get_messages_range", from, target_coverage, TRUE)
       IN IF new_messages = << >>
          THEN /\ summary' = [summary EXCEPT ![w] = prev_summary]
               /\ pc' = [pc EXCEPT ![w] = "store"]
               /\ calls' = [calls EXCEPT ![w] = Append(@, read)]
               /\ UNCHANGED new_summary_part
          ELSE \E oc \in O :
               LET part == generate_summary(from, to, oc)
                   combined == Combine(prev_summary, part)
               IN /\ new_summary_part' = [new_summary_part EXCEPT ![w] = part]
                  /\ calls' = [calls EXCEPT ![w] =
                                 @ \o << read, Call("generate_summary", from, to, oc.ok) >>]
                  /\ IF OverBudget(combined)
                     THEN /\ pc' = [pc EXCEPT ![w] = "sum_full"]
                          /\ UNCHANGED summary
                     ELSE /\ pc' = [pc EXCEPT ![w] = "store"]
                          /\ summary' = [summary EXCEPT ![w] = combined]
    /\ UNCHANGED << hostvars, log, cache, op, total_messages, old_message_count, latest,
                    recent_messages, context, truncated, floor, first_context >>

\* the condensation of the whole range 1..target_coverage, on both paths
SummarizeRange(w, O) ==
    LET target_coverage == old_message_count[w]
        messages == get_messages_range(log, 1, target_coverage)
    IN \E oc \in O :
          /\ summary' = [summary EXCEPT ![w] = generate_summary(1, Len(messages), oc)]
          /\ calls' = [calls EXCEPT ![w] =
                         @ \o << Call("get_messages_range", 1, target_coverage, TRUE),
                                 Call("generate_summary", 1, Len(messages), oc.ok) >>]
          /\ pc' = [pc EXCEPT ![w] = "store"]

\* generate_summary_incremental: "Combined summary too long, re-summarizing..."
SumFull(w, O) ==
    /\ pc[w] = "sum_full"
    /\ SummarizeRange(w, O)
    /\ UNCHANGED << hostvars, log, cache, op, total_messages, old_message_count, latest,
                    new_summary_part, recent_messages, context, truncated, floor,
                    first_context >>

\* generate_summary_incremental: "No previous summary, generate from scratch"
SumScratch(w, O) ==
    /\ pc[w] = "sum_scratch"
    /\ SummarizeRange(w, O)
    /\ UNCHANGED << hostvars, log, cache, op, total_messages, old_message_count, latest,
                    new_summary_part, recent_messages, context, truncated, floor,
                    first_context >>

\* a cache write under the next coverage (C16 must tell it from the code's)
StoreElsewhere(w) ==
    /\ pc[w] = "store"
    /\ cache' = cache_summary(cache, old_message_count[w] + 1, summary[w])
    /\ calls' = [calls EXCEPT ![w] =
                   Append(@, Call("cache_summary", old_message_count[w] + 1,
                                  old_message_count[w] + 1, TRUE))]
    /\ latest' = [latest EXCEPT ![w] = NoLatest]
    /\ new_summary_part' = [new_summary_part EXCEPT ![w] = None]
    /\ pc' = [pc EXCEPT ![w] = IF op[w] = "build" THEN "window" ELSE "done"]
    /\ UNCHANGED << hostvars, log, op, total_messages, old_message_count, summary, recent_messages,
                    context, truncated, floor, first_context >>

\* a cache write that is lost (C1 must tell it from the code's)
StoreLost(w) ==
    /\ pc[w] = "store"
    /\ calls' = [calls EXCEPT ![w] =
                   Append(@, Call("cache_summary", old_message_count[w],
                                  old_message_count[w], TRUE))]
    /\ latest' = [latest EXCEPT ![w] = NoLatest]
    /\ new_summary_part' = [new_summary_part EXCEPT ![w] = None]
    /\ pc' = [pc EXCEPT ![w] = IF op[w] = "build" THEN "window" ELSE "done"]
    /\ UNCHANGED << hostvars, log, cache, op, total_messages, old_message_count, summary,
                    recent_messages, context, truncated, floor, first_context >>

\* cache_summary(session_id, old_message_count, summary), by the caller of
\* generate_summary_incremental, whose locals are gone
Store(w) ==
    /\ pc[w] = "store"
    /\ cache' = cache_summary(cache, old_message_count[w], summary[w])
    /\ calls' = [calls EXCEPT ![w] =
                   Append(@, Call("cache_summary", old_message_count[w],
                                  old_message_count[w], TRUE))]
    /\ latest' = [latest EXCEPT ![w] = NoLatest]
    /\ new_summary_part' = [new_summary_part EXCEPT ![w] = None]
    /\ pc' = [pc EXCEPT ![w] = IF op[w] = "build" THEN "window" ELSE "done"]
    /\ UNCHANGED << hostvars, log, op, total_messages, old_message_count, summary, recent_messages,
                    context, truncated, floor, first_context >>

\* build_context: the recent window, its compression, the assembly and the safety check
BuildWindow(w, CO) ==
    /\ pc[w] = "window"
    /\ LET read == get_last_n_messages(log, RECENT_MESSAGE_COUNT)
           from == Len(log) - Len(read) + 1
       IN \E ocs \in [LongIdx(read) -> CO] :
          LET recent == CompressAll(read, ocs)
              assembled == AssembleContext(summary[w], recent)
          IN /\ recent_messages' = [recent_messages EXCEPT ![w] = recent]
             /\ context' = [context EXCEPT ![w] = assembled]
             /\ calls' = [calls EXCEPT ![w] =
                            Append(@, Call("get_last_n_messages", from, Len(log), TRUE))
                                \o CompressCalls(read, from, ocs)]
             /\ pc' = [pc EXCEPT ![w] =
                         IF SumTokens(assembled) > MAX_INPUT_TOKENS
                         THEN "emergency" ELSE "done"]
    /\ UNCHANGED << hostvars, log, cache, op, total_messages, old_message_count, summary, latest,
                    new_summary_part, truncated, floor, first_context >>

\* an emergency branch that asks for a new summary of the old turns
\* (C14 must tell it from the code's)
BuildEmergencyResummarize(w) ==
    /\ pc[w] = "emergency"
    /\ \E oc \in Outcomes :
          /\ context' = [context EXCEPT ![w] =
                EmergencyContext(generate_summary(1, old_message_count[w], oc),
                                 recent_messages[w])]
          /\ calls' = [calls EXCEPT ![w] =
                Append(@, Call("generate_summary", 1, old_message_count[w], oc.ok))]
    /\ truncated' = [truncated EXCEPT ![w] = TRUE]
    /\ pc' = [pc EXCEPT ![w] = "done"]
    /\ UNCHANGED << hostvars, log, cache, op, total_messages, old_message_count, summary, latest,
                    new_summary_part, recent_messages, floor, first_context >>

\* build_context: "Context exceeds limit! Applying emergency truncation..."
BuildEmergency(w) ==
    /\ pc[w] = "emergency"
    /\ context' = [context EXCEPT ![w] = EmergencyContext(summary[w], recent_messages[w])]
    /\ truncated' = [truncated EXCEPT ![w] = TRUE]
    /\ pc' = [pc EXCEPT ![w] = "done"]
    /\ UNCHANGED << hostvars, log, cache, op, total_messages, old_message_count, summary, latest,
                    new_summary_part, recent_messages, calls, floor, first_context >>

\* get_summary_endpoint: the count and its two early returns
SummaryCount(w) ==
    /\ pc[w] = "idle"
    /\ op' = [op EXCEPT ![w] = "summary"]
    /\ total_messages' = [total_messages EXCEPT ![w] = count_messages(log)]
    /\ floor' = [floor EXCEPT ![w] = MaxCoverage(cache)]
    /\ calls' = [calls EXCEPT ![w] = << Call("count", 0, 0, TRUE) >>]
    /\ IF count_messages(log) = 0 \/ count_messages(log) <= RECENT_MESSAGE_COUNT
       THEN /\ pc' = [pc EXCEPT ![w] = "done"]
            /\ UNCHANGED old_message_count
       ELSE /\ pc' = [pc EXCEPT ![w] = "lookup"]
            /\ old_message_count' = [old_message_count EXCEPT
                                        ![w] = OldCount(count_messages(log))]
    /\ UNCHANGED << hostvars, log, cache, summary, latest, new_summary_part, recent_messages,
                    context, truncated, first_context >>

\* the locals of a request are gone when its handler returns
ForgetLocals(w) ==
    /\ pc' = [pc EXCEPT ![w] = "idle"]
    /\ op' = [op EXCEPT ![w] = "none"]
    /\ total_messages' = [total_messages EXCEPT ![w] = 0]
    /\ old_message_count' = [old_message_count EXCEPT ![w] = 0]
    /\ summary' = [summary EXCEPT ![w] = None]
    /\ latest' = [latest EXCEPT ![w] = NoLatest]
    /\ new_summary_part' = [new_summary_part EXCEPT ![w] = None]
    /\ recent_messages' = [recent_messages EXCEPT ![w] = << >>]
    /\ context' = [context EXCEPT ![w] = << >>]
    /\ truncated' = [truncated EXCEPT ![w] = FALSE]
    /\ calls' = [calls EXCEPT ![w] = << >>]
    /\ floor' = [floor EXCEPT ![w] = 0]
    /\ first_context' = [first_context EXCEPT ![w] = NoOut]

\* the request returns to its caller
Return(w) ==
    /\ pc[w] = "done"
    /\ chat[w] = "none"
    /\ ForgetLocals(w)
    /\ UNCHANGED << hostvars, log, cache >>

Step(w) ==
    \/ BuildCount(w)
    \/ BuildShort(w, CompressOutcomes)
    \/ Lookup(w)
    \/ SumLatest(w)
    \/ SumDelta(w, Outcomes)
    \/ SumFull(w, Outcomes)
    \/ SumScratch(w, Outcomes)
    \/ Store(w)
    \/ BuildWindow(w, CompressOutcomes)
    \/ BuildEmergency(w)
    \/ SummaryCount(w)
    \/ Return(w)

AllIdle == \A w \in Workers : pc[w] = "idle"

\* requests one after the other
Next ==
    \/ Step(1)
    \/ AllIdle /\ \E n \in TurnLens : store_message(n)

Spec == Init /\ [][Next]_vars

(* ---------------- a caller that calls build_context twice -------------- *)
\* the service fails, or replies "" or a short text
TwiceOutcomes == {Failure, Reply(0), Reply(ShortLen)}
TwiceCompressOutcomes == {Failure, Reply(ShortLen)}

StepTwice(w) ==
    \/ BuildCount(w)
    \/ BuildAgain(w)
    \/ BuildShort(w, TwiceCompressOutcomes)
    \/ Lookup(w)
    \/ SumLatest(w)
    \/ SumDelta(w, TwiceOutcomes)
    \/ SumScratch(w, TwiceOutcomes)
    \/ Store(w)
    \/ BuildWindow(w, TwiceCompressOutcomes)
    \/ Return(w)

NextTwice ==
    \/ StepTwice(1)
    \/ AllIdle /\ \E n \in TurnLens : store_message(n)

SpecTwice == Init /\ [][NextTwice]_vars

(* ------------------- requests that overlap in time --------------------- *)
\* the service fails or replies with a short text
ConcOutcomes == {Failure, Reply(ShortLen)}

RECURSIVE OrdinaryLog(_)
OrdinaryLog(n) ==
    IF n = 0 THEN << >>
    ELSE Append(OrdinaryLog(n - 1), Turn(NextRole(OrdinaryLog(n - 1)), n, TriggerLen))

\* a session that has just entered the long regime
InitConc ==
    /\ log = OrdinaryLog(RECENT_MESSAGE_COUNT + 1)
    /\ cache = {}
    /\ IdleLocals

StepConc(w) ==
    \/ BuildCount(w)
    \/ Lookup(w)
    \/ SumLatest(w)
    \/ SumDelta(w, ConcOutcomes)
    \/ SumScratch(w, ConcOutcomes)
    \/ Store(w)
    \/ BuildWindow(w, CompressOutcomes)
    \/ SummaryCount(w)
    \/ Return(w)

\* the second request starts while the first is under way
NextConc ==
    \/ StepConc(1)
    \/ (pc[1] # "idle" \/ pc[2] # "idle") /\ StepConc(2)
    \/ store_message(TriggerLen)

SpecConc == InitConc /\ [][NextConc]_vars

(* ------------------------------ main.chat ------------------------------ *)
\* the generation call of chat fails or replies with a short text
ChatOutcomes == {Failure, Reply(ShortLen)}

\* time passes
Tick ==
    /\ now < StartTime + MaxTime
    /\ now' = now + 1
    /\ UNCHANGED << log, cache, pc, op, total_messages, old_message_count, summary, latest,
                    new_summary_part, recent_messages, context, truncated, calls, floor,
                    first_context, last_request_time, last_generation, chat, prompt,
                    legacyvars >>

\* if time_since_last < MIN_REQUEST_INTERVAL: raise HTTPException(status_code=429)
TooSoon == now - last_request_time < MIN_REQUEST_INTERVAL

\* no chat request of the worker is under way: none yet or the last one answered,
\* or the last one rejected with 429
Resting(w) == chat[w] \in {"none", "rejected"}

\* a chat that stores the prompt before it tests the rate limit
\* (C23 must tell it from the code's)
ChatArriveStoreFirst(w) ==
    /\ pc[w] = "idle"
    /\ Resting(w)
    /\ Len(log) < MaxChatTurns
    /\ log' = Append(log, Turn("user", Len(log) + 1, TriggerLen))
    /\ IF TooSoon
       THEN /\ chat' = [chat EXCEPT ![w] = "rejected"]
            /\ UNCHANGED prompt
       ELSE /\ chat' = [chat EXCEPT ![w] = "building"]
            /\ prompt' = [prompt EXCEPT ![w] =
                             Text("turn", Len(log) + 1, Len(log) + 1, TriggerLen)]
    /\ UNCHANGED << cache, pc, op, total_messages, old_message_count, summary, latest,
                    new_summary_part, recent_messages, context, truncated, calls, floor,
                    first_context, now, last_request_time, last_generation, legacyvars >>

\* chat: the rate limit, then store_message(session_id, "user", prompt)
ChatArrive(w) ==
    /\ pc[w] = "idle"
    /\ Resting(w)
    /\ Len(log) < MaxChatTurns
    /\ IF TooSoon
       THEN /\ chat' = [chat EXCEPT ![w] = "rejected"]
            /\ UNCHANGED << log, prompt >>
       ELSE /\ log' = Append(log, Turn("user", Len(log) + 1, TriggerLen))
            /\ chat' = [chat EXCEPT ![w] = "building"]
            /\ prompt' = [prompt EXCEPT ![w] =
                             Text("turn", Len(log) + 1, Len(log) + 1, TriggerLen)]
    /\ UNCHANGED << cache, pc, op, total_messages, old_message_count, summary, latest,
                    new_summary_part, recent_messages, context, truncated, calls, floor,
                    first_context, now, last_request_time, last_generation, legacyvars >>

\* chat: context = build_context(session_id, prompt)
ChatBuild(w) ==
    /\ chat[w] = "building"
    /\ BuildCount(w)

\* chat: context.append({"role": "user", "content": body.prompt}), and
\* call_llm(context, max_tokens=body.max_tokens) is called
ChatGenerate(w) ==
    /\ chat[w] = "building"
    /\ op[w] = "build"
    /\ pc[w] = "done"
    /\ context' = [context EXCEPT ![w] = Append(@, [role |-> "user", content |-> prompt[w]])]
    /\ last_generation' = now
    /\ chat' = [chat EXCEPT ![w] = "generating"]
    /\ UNCHANGED << log, cache, pc, op, total_messages, old_message_count, summary, latest,
                    new_summary_part, recent_messages, truncated, calls, floor,
                    first_context, now, last_request_time, prompt, legacyvars >>

\* chat: call_llm returns, last_request_time = time.time() and the reply is stored;
\* or it raises, and chat raises HTTPException(status_code=500)
ChatFinish(w) ==
    /\ chat[w] = "generating"
    /\ \E oc \in ChatOutcomes :
          IF oc.ok
          THEN /\ last_request_time' = now
               /\ log' = Append(log, Turn("assistant", Len(log) + 1, oc.n))
          ELSE UNCHANGED << last_request_time, log >>
    /\ chat' = [chat EXCEPT ![w] = "none"]
    /\ prompt' = [prompt EXCEPT ![w] = None]
    /\ ForgetLocals(w)
    /\ UNCHANGED << cache, now, last_generation, legacyvars >>

StepChat(w) ==
    \/ ChatArrive(w)
    \/ ChatBuild(w)
    \/ BuildShort(w, CompressOutcomes)
    \/ ChatGenerate(w)
    \/ ChatFinish(w)

\* chat requests that may overlap, and the clock
NextChat ==
    \/ \E w \in Workers : StepChat(w)
    \/ Tick

SpecChat == Init /\ [][NextChat]_vars

\* chat requests one after the other: each ends before the next arrives
NextChatAlone ==
    \/ StepChat(1)
    \/ Tick

SpecChatAlone == Init /\ [][NextChatAlone]_vars

(* ----------------------------- openrouter.py --------------------------- *)
\* the summarisation call fails or replies "" or a short text
StoryOutcomes == {Failure, Reply(0), Reply(ShortLen)}

StoryFallback == Text("fallback", 0, 0, STORY_FALLBACK_LEN)

\* time passes
StoryTick ==
    /\ clock < MaxClock
    /\ clock' = clock + 1
    /\ UNCHANGED << log, cache, pc, op, total_messages, old_message_count, summary, latest,
                    new_summary_part, recent_messages, context, truncated, calls, floor,
                    first_context, chatvars, message_rows, story_context, summary_calls, reads,
                    returned, last_stored >>

\* INSERT OR REPLACE INTO story_context (session_id, message_count, last_updated):
\* the row is replaced, and the column that is not named gets its default, NULL
ReplacedRow ==
    [present |-> TRUE,
     comprehensive_summary |-> None,
     message_count |-> (IF story_context.present THEN story_context.message_count ELSE 0) + 1,
     last_updated |-> clock]

\* openrouter.store_message
StoryStoreMessage ==
    /\ message_rows < MaxStored
    /\ message_rows' = message_rows + 1
    /\ story_context' = ReplacedRow
    /\ UNCHANGED << log, cache, pc, op, total_messages, old_message_count, summary, latest,
                    new_summary_part, recent_messages, context, truncated, calls, floor,
                    first_context, chatvars, clock, summary_calls, reads, returned,
                    last_stored >>

\* get_cached_summary returns the stored column without generate_comprehensive_summary
ServedFromRow ==
    /\ story_context.present
    /\ ~(message_rows - story_context.message_count > NEW_MESSAGE_LIMIT)
    /\ ~(clock - story_context.last_updated > HOUR)
    /\ ~Falsy(story_context.comprehensive_summary)

\* what the model is given: the last SUMMARY_MESSAGE_LIMIT stored messages
StorySummary(oc) ==
    Text("summary", Max(1, message_rows - SUMMARY_MESSAGE_LIMIT + 1), message_rows, oc.n)

\* openrouter.get_cached_summary, with the generate_comprehensive_summary call it makes
StoryGetCachedSummary(oc) ==
    /\ reads < MaxReads
    /\ reads' = reads + 1
    /\ IF ServedFromRow
       THEN /\ returned' = story_context.comprehensive_summary
            /\ UNCHANGED << story_context, summary_calls, last_stored >>
       ELSE IF message_rows = 0
       THEN /\ returned' = << >>
            /\ UNCHANGED << story_context, summary_calls, last_stored >>
       ELSE /\ summary_calls' = summary_calls + 1
            /\ IF oc.ok
               THEN /\ returned' = StorySummary(oc)
                    /\ story_context' =
                          IF story_context.present
                          THEN [story_context EXCEPT !.comprehensive_summary = StorySummary(oc),
                                                     !.last_updated = clock]
                          ELSE story_context
                    /\ last_stored' =
                          IF story_context.present
                          THEN [text |-> StorySummary(oc), at |-> clock, count |-> message_rows]
                          ELSE last_stored
               ELSE /\ returned' = StoryFallback
                    /\ UNCHANGED << story_context, last_stored >>
    /\ UNCHANGED << log, cache, pc, op, total_messages, old_message_count, summary, latest,
                    new_summary_part, recent_messages, context, truncated, calls, floor,
                    first_context, chatvars, clock, message_rows >>

\* store_message and get_cached_summary calls, as chat and get_story_summary make them
NextStory ==
    \/ StoryStoreMessage
    \/ \E oc \in StoryOutcomes : StoryGetCachedSummary(oc)
    \/ StoryTick

SpecStory == Init /\ [][NextStory]_vars

(* ------------------------- what a request shows ------------------------ *)
Select(cs, kinds) == SelectSeq(cs, LAMBDA c : c.kind \in kinds)
Summaries(cs) == Select(cs, {"generate_summary"})
Compressions(cs) == Select(cs, {"compress"})
Condensations(cs) == Select(cs, {"generate_summary", "compress"})
CacheCalls(cs) == Select(cs, {"get_cached_summary", "get_latest_cached_summary", "cache_summary"})

\* build_context is about to return context[w]
BuildDone(w) == pc[w] = "done" /\ op[w] = "build"
LongBuildDone(w) == BuildDone(w) /\ total_messages[w] > RECENT_MESSAGE_COUNT
SecondBuildDone(w) == BuildDone(w) /\ first_context[w] # NoOut

\* the segments of the returned list that stand for turns, and the turn of the i-th
TurnSegments(w) ==
    IF total_messages[w] <= RECENT_MESSAGE_COUNT THEN context[w] ELSE Tail(context[w])
PositionOf(w, i) == Len(log) - Len(TurnSegments(w)) + i

\* the stored turns the returned segments stand for
TurnSegmentsSource(w) ==
    SubSeq(log, PositionOf(w, 1), Len(log))

HasMarker(content) == Marker # << >> /\ Prefix(content, MARKER_LEN) = Marker

\* generate_summary_incremental is about to return on its extension path
Extending(w) ==
    /\ pc[w] \in {"store"}
    /\ latest[w] # NoLatest
    /\ latest[w].coverage < old_message_count[w]

AllFailed(cs) == \A i \in DOMAIN cs : ~cs[i].ok

(* C1, as claimed: a second build_context call with no turn stored in     *)
(* between returns the list the first returned and makes no condensation  *)
(* call, neither generate_summary nor compress_message.                   *)
C1_SecondBuildIdentical ==
    \A w \in Workers :
        SecondBuildDone(w) =>
            /\ context[w] = first_context[w]
            /\ Condensations(calls[w]) = << >>

(* C1, amended: the second call makes no generate_summary call, returns   *)
(* as many segments with the same roles and the same system segment; it   *)
(* compresses again every turn above the trigger, and returns the same    *)
(* list when there is none.                                               *)
C1_SecondBuildReusesSummary ==
    \A w \in Workers :
        SecondBuildDone(w) =>
            /\ Summaries(calls[w]) = << >>
            /\ Len(context[w]) = Len(first_context[w])
            /\ \A i \in DOMAIN context[w] : context[w][i].role = first_context[w][i].role
            /\ total_messages[w] > RECENT_MESSAGE_COUNT => context[w][1] = first_context[w][1]
            /\ Len(Compressions(calls[w])) = Cardinality(LongIdx(TurnSegmentsSource(w)))
            /\ Compressions(calls[w]) = << >> => context[w] = first_context[w]

C1_Witness ==
    \E w \in Workers :
        /\ SecondBuildDone(w)
        /\ total_messages[w] > RECENT_MESSAGE_COUNT
        /\ Compressions(calls[w]) = << >>
        /\ context[w] = first_context[w]

(* C2, as claimed: extending a cached summary of coverage N to N+k calls  *)
(* generate_summary on the turns N+1..N+k only, never on 1..N+k, and      *)
(* returns the previous summary, the separator and the addendum.          *)
C2_OnlyDelta ==
    \A w \in Workers :
        Extending(w) =>
            LET made == Summaries(calls[w]) IN
            /\ Len(made) = 1
            /\ made[1].a = latest[w].coverage + 1
            /\ made[1].b = old_message_count[w]
            /\ summary[w] = latest[w].text \o Separator \o new_summary_part[w]

(* C2, amended: the first generate_summary call is on the turns           *)
(* N+1..N+k.  When the previous summary, the separator and the addendum   *)
(* together are within SUMMARY_MAX_TOKENS, it is the only call and they   *)
(* are the result; when they are above it, a second call condenses the    *)
(* whole range 1..N+k and its reply (or the fallback) is the result.      *)
C2_DeltaFirst ==
    \A w \in Workers :
        Extending(w) =>
            LET made == Summaries(calls[w])
                N == latest[w].coverage
                target == old_message_count[w]
                joined == latest[w].text \o Separator \o new_summary_part[w]
            IN
            /\ Len(made) >= 1
            /\ made[1].a = N + 1 /\ made[1].b = target
            /\ new_summary_part[w] \in {generate_summary(N + 1, target, oc) : oc \in Outcomes}
            /\ IF estimate_tokens(joined) <= SUMMARY_MAX_TOKENS
               THEN Len(made) = 1 /\ summary[w] = joined
               ELSE /\ Len(made) = 2
                    /\ made[2].a = 1 /\ made[2].b = target
                    /\ summary[w] \in {generate_summary(1, target, oc) : oc \in Outcomes}

C2_Witness ==
    \E w \in Workers :
        /\ Extending(w)
        /\ Len(Summaries(calls[w])) = 1
        /\ new_summary_part[w] # Fallback
        /\ summary[w] = latest[w].text \o Separator \o new_summary_part[w]

(* C3, as claimed: every list build_context returns has an estimated      *)
(* size of at most MAX_INPUT_TOKENS.                                      *)
C3_HardCeiling ==
    \A w \in Workers :
        BuildDone(w) => SumTokens(context[w]) <= MAX_INPUT_TOKENS

(* C4, as claimed: when every condensation call fails,                    *)
(* generate_summary_incremental returns the fallback string, from scratch *)
(* and on the extension path, and a compressed segment holds a truncated  *)
(* prefix of its turn's content.                                          *)
FailedCompressionsTruncate(w) ==
    BuildDone(w) =>
        \A i \in DOMAIN TurnSegments(w) :
            LET turn == log[PositionOf(w, i)]
                seg == TurnSegments(w)[i]
            IN (\E j \in DOMAIN calls[w] :
                    /\ calls[w][j] = Call("compress", PositionOf(w, i), PositionOf(w, i), FALSE))
               => /\ seg.role = turn.role
                  /\ seg.content =
                        Marker \o Prefix(turn.content, MESSAGE_COMPRESSED_SIZE * CHARS_PER_TOKEN)
                  /\ TextLen(seg.content) < TextLen(turn.content)

SummarizeFailed(w) ==
    /\ pc[w] = "store"
    /\ Summaries(calls[w]) # << >>
    /\ AllFailed(Summaries(calls[w]))

C4_FallbackWhenAllFail ==
    \A w \in Workers :
        /\ SummarizeFailed(w) => summary[w] = Fallback
        /\ FailedCompressionsTruncate(w)

(* C4, amended: when every condensation call fails,                       *)
(* generate_summary_incremental raises nothing and returns the fallback   *)
(* string from scratch; on the extension path it returns the previous     *)
(* summary, the separator and the fallback string, or the fallback string *)
(* alone when those are above SUMMARY_MAX_TOKENS; a compressed segment    *)
(* holds the marker and the first MESSAGE_COMPRESSED_SIZE * 4 characters  *)
(* of its turn's content.                                                 *)
C4_Degradation ==
    \A w \in Workers :
        /\ SummarizeFailed(w) =>
              IF latest[w] = NoLatest THEN summary[w] = Fallback
              ELSE LET joined == latest[w].text \o Separator \o Fallback IN
                   IF estimate_tokens(joined) <= SUMMARY_MAX_TOKENS
                   THEN summary[w] = joined
                   ELSE summary[w] = Fallback
        /\ FailedCompressionsTruncate(w)

C4_Witness ==
    \E w \in Workers :
        /\ SummarizeFailed(w)
        /\ latest[w] # NoLatest
        /\ summary[w] = latest[w].text \o Separator \o Fallback

C4_WitnessCompress ==
    \E w \in Workers :
        /\ BuildDone(w)
        /\ Compressions(calls[w]) # << >>
        /\ AllFailed(Compressions(calls[w]))

(* C5, as claimed: the coverages written to the cache are written in      *)
(* non-decreasing order, requests that overlap in time included, and each *)
(* is at most the number of stored turns at the moment of the write.      *)
C5_WritesNonDecreasing ==
    \A w \in Workers :
        pc[w] = "store" =>
            /\ old_message_count[w] >= MaxCoverage(cache)
            /\ old_message_count[w] <= Len(log)

(* C5, amended: each coverage written to the cache is at least every      *)
(* coverage the cache held when the writing request counted the turns,    *)
(* so writes of requests that do not overlap are in non-decreasing order, *)
(* and each is at most the number of stored turns at the moment of the    *)
(* write.  Writes of overlapping requests may land in decreasing order.   *)
C5_WritesAboveCounted ==
    \A w \in Workers :
        pc[w] = "store" =>
            /\ old_message_count[w] >= floor[w]
            /\ old_message_count[w] <= Len(log)
            /\ old_message_count[w] = total_messages[w] - RECENT_MESSAGE_COUNT

C5_Witness ==
    \E w \in Workers :
        /\ pc[w] = "store"
        /\ floor[w] > 0
        /\ old_message_count[w] > floor[w]
        /\ \E v \in Workers \ {w} : pc[v] # "idle"

(* C6: with at most RECENT_MESSAGE_COUNT stored turns build_context       *)
(* returns one segment per stored turn, in log order and with the turn's  *)
(* role, no system segment, the empty list for no turn, and it makes no   *)
(* cache lookup, no cache write and no generate_summary call.             *)
C6_ShortRegime ==
    \A w \in Workers :
        (BuildDone(w) /\ total_messages[w] <= RECENT_MESSAGE_COUNT) =>
            /\ Len(context[w]) = total_messages[w]
            /\ Len(context[w]) = Len(log)
            /\ \A i \in DOMAIN context[w] :
                  /\ context[w][i].role = log[i].role
                  /\ context[w][i].role # "system"
                  /\ \/ context[w][i] = log[i]
                     \/ NeedsCompression(log[i]) /\ HasMarker(context[w][i].content)
            /\ CacheCalls(calls[w]) = << >>
            /\ Summaries(calls[w]) = << >>
            /\ ~truncated[w]

C6_Witness ==
    \E w \in Workers :
        /\ BuildDone(w)
        /\ total_messages[w] = RECENT_MESSAGE_COUNT
        /\ Len(context[w]) = RECENT_MESSAGE_COUNT
        /\ Compressions(calls[w]) # << >>

(* C7: with more than RECENT_MESSAGE_COUNT stored turns, a build_context  *)
(* call that does not take the emergency branch returns exactly           *)
(* 1 + RECENT_MESSAGE_COUNT segments: one system segment, then one        *)
(* segment for each of the last RECENT_MESSAGE_COUNT turns, in order.     *)
C7_LongRegimeSize ==
    \A w \in Workers :
        (LongBuildDone(w) /\ ~truncated[w]) =>
            /\ Len(context[w]) = 1 + RECENT_MESSAGE_COUNT
            /\ context[w][1].role = "system"
            /\ \A i \in 1..RECENT_MESSAGE_COUNT :
                  /\ context[w][i + 1].role = log[Len(log) - RECENT_MESSAGE_COUNT + i].role
                  /\ context[w][i + 1].role # "system"

C7_Witness ==
    \E w \in Workers :
        /\ LongBuildDone(w)
        /\ ~truncated[w]
        /\ Len(context[w]) = 1 + RECENT_MESSAGE_COUNT
        /\ Compressions(calls[w]) # << >>

(* C8, as claimed: when the assembled long-regime list is above           *)
(* MAX_INPUT_TOKENS, build_context returns the same system segment and    *)
(* at most the last 10 compressed recent segments in their order, and     *)
(* that list is strictly smaller than the list that was above the limit.  *)
C8_EmergencyShrinks ==
    \A w \in Workers :
        (BuildDone(w) /\ truncated[w]) =>
            LET exceeded == AssembleContext(summary[w], recent_messages[w]) IN
            /\ SumTokens(exceeded) > MAX_INPUT_TOKENS
            /\ context[w][1] = exceeded[1]
            /\ Len(context[w]) <= 1 + EMERGENCY_KEEP
            /\ Tail(context[w]) = LastN(recent_messages[w], Len(context[w]) - 1)
            /\ \/ Len(context[w]) < Len(exceeded)
               \/ SumTokens(context[w]) < SumTokens(exceeded)

(* C9, as claimed: compress_if_needed returns a turn at or below          *)
(* MESSAGE_COMPRESS_THRESHOLD unchanged and without a compress_message    *)
(* call; a turn above it becomes a segment of the same role that carries  *)
(* the marker and whose content is shorter than the turn's content,       *)
(* whether compress_message got a reply or failed.                        *)
C9_CompressionIdentity ==
    \A w \in Workers :
        BuildDone(w) =>
            /\ Len(Compressions(calls[w])) = Cardinality(LongIdx(TurnSegmentsSource(w)))
            /\ \A i \in DOMAIN TurnSegments(w) :
                  LET turn == log[PositionOf(w, i)]
                      seg == TurnSegments(w)[i]
                  IN IF estimate_tokens(turn.content) <= MESSAGE_COMPRESS_THRESHOLD
                     THEN seg = turn
                     ELSE /\ seg.role = turn.role
                          /\ HasMarker(seg.content)
                          /\ TextLen(seg.content) < TextLen(turn.content)

(* C10, as claimed: in the long regime, with a cached record for exactly  *)
(* old_message_count, build_context puts that record's text in the system *)
(* segment and makes no generate_summary call and no cache write,         *)
(* whatever the text; with no such record it calls                        *)
(* generate_summary_incremental once, stores the result under exactly     *)
(* old_message_count and puts the stored text in the system segment.      *)
C10_ExactMatch ==
    \A w \in Workers :
        LongBuildDone(w) =>
            LET looked == Select(calls[w], {"get_cached_summary"})
                written == Select(calls[w], {"cache_summary"})
                asked == Select(calls[w], {"get_latest_cached_summary"})
            IN
            /\ Len(looked) = 1
            /\ looked[1].a = old_message_count[w]
            /\ context[w][1] = SystemSegment(get_cached_summary(cache, old_message_count[w]))
            /\ IF looked[1].ok
               THEN written = << >> /\ asked = << >> /\ Summaries(calls[w]) = << >>
               ELSE /\ Len(asked) = 1
                    /\ Len(written) = 1
                    /\ written[1].a = old_message_count[w]

\* the positions of the stored turns a segment's content was made from
PositionsIn(content) ==
    {content[i].a : i \in {j \in DOMAIN content : content[j].k \in {"turn", "compressed"}}}

\* the least of them, 0 if there is none
TurnOf(seg) ==
    LET ps == PositionsIn(seg.content) IN
    IF ps = {} THEN 0 ELSE CHOOSE p \in ps : \A q \in ps : p <= q

\* the segment stands for the stored turn at position p
StandsFor(seg, p) ==
    /\ p \in 1..Len(log)
    /\ PositionsIn(seg.content) = {p}
    /\ seg.role = log[p].role

(* C11: every list build_context returns has at most one system segment,  *)
(* which is then the first element; every other segment is made from one  *)
(* stored turn and has its role, and the turns of the segments are at     *)
(* strictly increasing positions: none reordered, none twice.             *)
C11_OutputStructure ==
    \A w \in Workers :
        BuildDone(w) =>
            LET ctx == context[w]
                sys == {i \in DOMAIN ctx : ctx[i].role = "system"}
                rest == DOMAIN ctx \ sys
            IN
            /\ sys \subseteq {1}
            /\ total_messages[w] > RECENT_MESSAGE_COUNT => sys = {1}
            /\ \A i \in rest : StandsFor(ctx[i], TurnOf(ctx[i]))
            /\ \A i \in rest :
                  (i + 1) \in rest => TurnOf(ctx[i]) < TurnOf(ctx[i + 1])

C11_Witness ==
    \E w \in Workers :
        /\ BuildDone(w)
        /\ truncated[w]
        /\ context[w][1].role = "system"
        /\ \E i \in DOMAIN context[w] :
              HasMarker(context[w][i].content) /\ StandsFor(context[w][i], Len(log) - 1)

\* what build_context returns for the stored turns when every call gets a short reply
SuccessBuild ==
    LET served(messages) == [i \in LongIdx(messages) |-> Reply(ShortLen)] IN
    IF IsShort(count_messages(log))
    THEN CompressAll(get_all_messages(log), served(get_all_messages(log)))
    ELSE LET recent == get_last_n_messages(log, RECENT_MESSAGE_COUNT) IN
         AssembleContext(generate_summary(1, OldCount(count_messages(log)), Reply(ShortLen)),
                         CompressAll(recent, served(recent)))

\* how far a request is, in the order of the statements of build_context
Rank(p) ==
    CASE p = "idle" -> 0
      [] p \in {"short", "lookup"} -> 1
      [] p = "sum_latest" -> 2
      [] p \in {"sum_scratch", "sum_delta"} -> 3
      [] p = "sum_full" -> 4
      [] p = "store" -> 5
      [] p = "window" -> 6
      [] p = "emergency" -> 7
      [] p = "done" -> 8

\* the last call the request made was a condensation call, and it failed
LastFailed(w) ==
    /\ calls[w] # << >>
    /\ calls[w][Len(calls[w])].kind \in {"generate_summary", "compress"}
    /\ ~calls[w][Len(calls[w])].ok

Roles(ctx) == [i \in DOMAIN ctx |-> ctx[i].role]

SameShapeAsSuccess(w) ==
    BuildDone(w) =>
        /\ Len(context[w]) = Len(SuccessBuild)
        /\ Roles(context[w]) = Roles(SuccessBuild)

(* C12: whatever calls of generate_summary and compress_message fail      *)
(* during a build_context call, the call returns a list, and the list has *)
(* as many segments, with the same roles in the same order, as the one    *)
(* returned when every call gets a reply.                                 *)
(* "Returns" is stated without fairness: a build_context call whose last  *)
(* call of generate_summary or compress_message failed has reached its    *)
(* return or can take its next step, and every step moves a call forward  *)
(* in the order of the code.                                              *)
C12_BuildNeverAborts ==
    /\ [](\A w \in Workers :
            /\ SameShapeAsSuccess(w)
            /\ (op[w] = "build" /\ LastFailed(w)) => (BuildDone(w) \/ ENABLED Step(w)))
    /\ [][\A w \in Workers :
            (op[w] = "build" /\ pc'[w] # pc[w]) =>
                (Rank(pc'[w]) > Rank(pc[w]) \/ (pc[w] = "done" /\ pc'[w] = "idle"))]_vars

C12_Witness ==
    \E w \in Workers :
        /\ LongBuildDone(w)
        /\ Summaries(calls[w]) # << >>
        /\ Compressions(calls[w]) # << >>
        /\ AllFailed(Condensations(calls[w]))
        /\ Roles(context[w]) = Roles(SuccessBuild)

\* the request is inside generate_summary_incremental
InSummarizer(w) == pc[w] \in {"sum_latest", "sum_scratch", "sum_delta", "sum_full"}

\* the exact-match lookup of the request found no record
ExactMiss(w) ==
    \E i \in DOMAIN calls[w] :
        calls[w][i] = Call("get_cached_summary", old_message_count[w],
                           old_message_count[w], FALSE)

CacheWrites(cs) == Select(cs, {"cache_summary"})

(* C13, as claimed: a step of a build_context call leaves the log as it   *)
(* is; it changes the cache at most by writing the one record of          *)
(* old_message_count, and only after the exact-match lookup found no      *)
(* record; no step inside generate_summary_incremental changes the cache. *)
C13_FrameOfBuild ==
    [][\A w \in Workers :
          (op[w] = "build" /\ pc[w] # "idle" /\ pc'[w] # pc[w]) =>
              /\ log' = log
              /\ InSummarizer(w) => cache' = cache
              /\ cache' # cache =>
                    cache' = cache_summary(cache, old_message_count[w], summary[w])
              /\ Len(CacheWrites(calls'[w])) > Len(CacheWrites(calls[w])) =>
                    /\ ExactMiss(w)
                    /\ Len(CacheWrites(calls'[w])) = 1]_vars

(* C14: from the moment build_context finds the assembled list above      *)
(* MAX_INPUT_TOKENS to its return it makes no generate_summary or         *)
(* compress_message call, reads and writes no cache record and reads no   *)
(* turn, and the list it returns starts with the system segment of the    *)
(* list that was above the limit.                                         *)
C14_EmergencyUsesDataInHand ==
    [][\A w \in Workers :
          pc[w] = "emergency" =>
              /\ SumTokens(context[w]) > MAX_INPUT_TOKENS
              /\ pc'[w] = "done"
              /\ calls'[w] = calls[w]
              /\ cache' = cache
              /\ log' = log
              /\ summary'[w] = summary[w]
              /\ context'[w][1] = context[w][1]
              /\ context'[w][1] = SystemSegment(summary[w])]_vars

C14_Witness ==
    \E w \in Workers :
        /\ BuildDone(w)
        /\ truncated[w]
        /\ calls[w][Len(calls[w])].kind = "get_last_n_messages"
        /\ context[w][1] = SystemSegment(summary[w])
        /\ TextLen(summary[w]) = HugeLen

\* build_context has passed the guard of the short regime
PastGuard(w) ==
    /\ op[w] = "build"
    /\ pc[w] \in {"lookup", "sum_latest", "sum_scratch", "sum_delta", "sum_full",
                  "store", "window", "emergency"}

\* the calls that name a coverage or a range of positions
Addressed(cs) ==
    Select(cs, {"get_cached_summary", "cache_summary", "get_messages_range",
                "generate_summary"})

(* C15: once build_context has passed the guard of the short regime,      *)
(* old_message_count is at least 1, and the cache and generate_summary    *)
(* are called with coverages and positions of at least 1 only.  The guard *)
(* and the subtraction read the one constant RECENT_MESSAGE_COUNT         *)
(* (SUMMARIZE_THRESHOLD is read nowhere), so this is so for every setting *)
(* of it and every number of turns.                                       *)
C15_OldCountPositive ==
    /\ \A w \in Workers :
          PastGuard(w) =>
              /\ old_message_count[w] >= 1
              /\ \A i \in DOMAIN Addressed(calls[w]) :
                    Addressed(calls[w])[i].a >= 1 /\ Addressed(calls[w])[i].b >= 1
    /\ \A recent_setting \in 0..MaxSetting :
          \A total \in 0..(recent_setting + MaxBeyond) :
              ~IsShortWith(total, recent_setting) => OldCountWith(total, recent_setting) >= 1

C15_Witness ==
    \E w \in Workers :
        /\ PastGuard(w)
        /\ pc[w] = "store"
        /\ total_messages[w] = RECENT_MESSAGE_COUNT + 1
        /\ old_message_count[w] = 1
        /\ Summaries(calls[w]) # << >>

\* two build_context calls under way at once that both looked up the same coverage,
\* both found no record, and both called generate_summary
BothMissed(w, v) ==
    /\ w # v
    /\ op[w] = "build" /\ op[v] = "build"
    /\ ExactMiss(w) /\ ExactMiss(v)
    /\ old_message_count[w] = old_message_count[v]
    /\ Summaries(calls[w]) # << >> /\ Summaries(calls[v]) # << >>

(* C16: when two build_context calls that overlap have both found no      *)
(* record for the same coverage and both called generate_summary, each    *)
(* that has not returned yet can take its next step, and once both are at *)
(* their return the cache holds a record for that coverage whose text is  *)
(* the summary of one of the two.                                         *)
C16_RedundantWork ==
    \A w, v \in Workers :
        BothMissed(w, v) =>
            /\ (BuildDone(w) \/ ENABLED StepConc(w))
            /\ (BuildDone(w) /\ BuildDone(v)) =>
                  /\ old_message_count[w] \in Coverages(cache)
                  /\ get_cached_summary(cache, old_message_count[w])
                        \in {summary[w], summary[v]}
                  /\ context[w][1] = SystemSegment(summary[w])

C16_Witness ==
    \E w, v \in Workers :
        /\ BothMissed(w, v)
        /\ BuildDone(w) /\ BuildDone(v)
        /\ AllFailed(Summaries(calls[w]))
        /\ ~AllFailed(Summaries(calls[v]))
        /\ summary[w] # summary[v]
        /\ get_cached_summary(cache, old_message_count[w]) = summary[w]

\* the text holds the separator: it is a concatenation made on the extension path
IsConcatenation(t) == \E i \in DOMAIN t : t[i].k = "separator"

WithinBudget(t) == estimate_tokens(t) <= SUMMARY_MAX_TOKENS

(* C17: what generate_summary_incremental returns on its extension path   *)
(* is the previous summary, the separator and the addendum, estimated at  *)
(* no more than SUMMARY_MAX_TOKENS, or else what one generate_summary     *)
(* call on the turns 1..target_coverage returned; and no text that is     *)
(* returned or cached is a concatenation above SUMMARY_MAX_TOKENS.        *)
C17_BoundedSummaryGrowth ==
    /\ \A w \in Workers :
          Extending(w) =>
              LET made == Summaries(calls[w])
                  joined == latest[w].text \o Separator \o new_summary_part[w]
              IN \/ summary[w] = joined /\ WithinBudget(joined)
                 \/ /\ ~WithinBudget(joined)
                    /\ made[Len(made)].a = 1
                    /\ made[Len(made)].b = old_message_count[w]
                    /\ summary[w] \in {generate_summary(1, old_message_count[w], oc) :
                                          oc \in Outcomes}
    /\ \A w \in Workers :
          (pc[w] \in {"store", "window", "emergency", "done"} /\ IsConcatenation(summary[w]))
              => WithinBudget(summary[w])
    /\ \A r \in cache : IsConcatenation(r.text) => WithinBudget(r.text)

C17_Witness ==
    \E w \in Workers :
        /\ Extending(w)
        /\ ~WithinBudget(latest[w].text \o Separator \o new_summary_part[w])
        /\ ~IsConcatenation(summary[w])
        /\ Len(Summaries(calls[w])) = 2

(* C18, as claimed: any two calls of the generation model that chat makes *)
(* are at least MIN_REQUEST_INTERVAL apart, also when the earlier call    *)
(* failed and when the requests overlap.                                  *)
C18_Cooldown ==
    [][\A w \in Workers :
          (chat[w] = "building" /\ chat'[w] = "generating") =>
              (last_generation = NoTime \/ now - last_generation >= MIN_REQUEST_INTERVAL)]_vars

\* the positions of the turns that were condensed into a text
Represented(t) ==
    UNION {t[i].a .. t[i].b : i \in {j \in DOMAIN t : t[j].k = "summary"}}

\* the text holds the string generate_summary returns when its call fails
HasPlaceholder(t) == \E i \in DOMAIN t : t[i].k = "fallback"

(* C19, as claimed: every cache record (c, text) holds a text made from    *)
(* exactly the turns 1..c: no failure placeholder is in it, no turn beyond *)
(* c was condensed into it, and, unless the text is empty or a             *)
(* concatenation (where an empty reply leaves no trace), every turn of     *)
(* 1..c was condensed into it.                                             *)
C19_CacheRepresentsCoverage ==
    \A r \in cache :
        /\ ~HasPlaceholder(r.text)
        /\ Represented(r.text) \subseteq 1..r.coverage
        /\ (r.text # << >> /\ ~IsConcatenation(r.text)) =>
               Represented(r.text) = 1..r.coverage

\* the reads of the recent window a request has made
WindowReads(cs) == Select(cs, {"get_last_n_messages"})

(* C20, as claimed: in every long-regime build_context call, whatever     *)
(* other requests store meanwhile, the recent window that is read is      *)
(* exactly the turns old_message_count + 1 .. old_message_count +         *)
(* RECENT_MESSAGE_COUNT, so every turn stored when the window is read is  *)
(* at a position the summary stands for (1..old_message_count) or in the  *)
(* window, and none is in both.                                           *)
C20_NoTurnBetween ==
    \A w \in Workers :
        (op[w] = "build" /\ total_messages[w] > RECENT_MESSAGE_COUNT) =>
            \A i \in DOMAIN WindowReads(calls[w]) :
                /\ WindowReads(calls[w])[i].a = old_message_count[w] + 1
                /\ WindowReads(calls[w])[i].b = old_message_count[w] + RECENT_MESSAGE_COUNT

\* the user segments of a list that hold the prompt of the request
PromptSegments(w) ==
    {i \in DOMAIN context[w] :
        context[w][i].role = "user" /\ context[w][i].content = prompt[w]}

(* C21, as claimed: the list chat passes to call_llm holds the prompt of  *)
(* the request in exactly one user segment, the last of the list.         *)
C21_PromptOnce ==
    \A w \in Workers :
        chat[w] = "generating" =>
            /\ context[w][Len(context[w])] = [role |-> "user", content |-> prompt[w]]
            /\ Cardinality(PromptSegments(w)) = 1

\* no chat request is under way
ChatQuiet == \A w \in Workers : Resting(w)

(* C22, as claimed: when chat requests come one after the other, then     *)
(* between requests the log alternates user and assistant turns, starting *)
(* with a user turn and ending with the reply to the last user turn, also *)
(* after a request whose call_llm call failed.                            *)
C22_LogAlternates ==
    ChatQuiet =>
        /\ Len(log) % 2 = 0
        /\ \A i \in DOMAIN log :
              log[i].role = IF i % 2 = 1 THEN "user" ELSE "assistant"

\* the step is chat answering a request of worker w with 429
Rejects(w) == Resting(w) /\ chat'[w] = "rejected" /\ chat'[w] # chat[w]

(* C23: a chat request is rejected with 429 exactly when it arrives less  *)
(* than MIN_REQUEST_INTERVAL after last_request_time, and the rejection   *)
(* leaves the log, the cache and last_request_time as they are and makes  *)
(* no call of generate_summary, compress_message or call_llm.             *)
C23_RejectionHasNoEffect ==
    [][\A w \in Workers :
          /\ Rejects(w) =>
                /\ TooSoon
                /\ log' = log
                /\ cache' = cache
                /\ last_request_time' = last_request_time
                /\ last_generation' = last_generation
                /\ calls' = calls
                /\ pc' = pc
          /\ (Resting(w) /\ chat'[w] = "building") => ~TooSoon]_vars

C23_Witness ==
    \E w \in Workers :
        /\ chat[w] = "rejected"
        /\ log # << >>
        /\ last_request_time > 0
        /\ now - last_request_time < MIN_REQUEST_INTERVAL

\* a summary has been generated and stored, no more than an hour ago and with at most
\* NEW_MESSAGE_LIMIT messages stored since
StoredAndFresh ==
    /\ last_stored # NoStored
    /\ last_stored.text # << >>
    /\ clock - last_stored.at <= HOUR
    /\ message_rows - last_stored.count <= NEW_MESSAGE_LIMIT

(* C24, as claimed: once generate_comprehensive_summary has stored a      *)
(* summary, a get_cached_summary call made no more than an hour later and *)
(* with at most 10 messages stored since returns that summary and does    *)
(* not call the model.                                                    *)
C24_StoredSummaryServed ==
    [][(reads' = reads + 1 /\ StoredAndFresh) =>
          /\ summary_calls' = summary_calls
          /\ returned' = last_stored.text]_vars

====
